---- MODULE Spec2Model ----
(***************************************************************************)
(* Catalog API (items): HTTP handler -> Service -> Repository -> items     *)
(* table.  Texts are sequences of one-character strings; a Go pointer is   *)
(* <<>> (nil) or <<v>>; a JSON member is <<>> (key absent), <<"null">> or  *)
(* <<"v", value>>.                                                         *)
(***************************************************************************)
EXTENDS Integers, Sequences, FiniteSets, TLC

VARIABLES items, nextId, clock, pc, req, resp, text, verdict

vars == <<items, nextId, clock, pc, req, resp, text, verdict>>

-----------------------------------------------------------------------------
(* Bounds of the model *)

\* rows ever inserted (ids are generated and never reused)
MaxCreates == 2
\* successful writes that stamp now()
MaxClock == 2
\* length of the texts given to isValidPrice in SpecPrice
MaxLen == 5

-----------------------------------------------------------------------------
(* Texts *)

Digits == {"0", "1", "2", "3", "4", "5", "6", "7", "8", "9"}
NonZeroDigits == Digits \ {"0"}

\* unicode.IsSpace on the characters of the model's alphabets
IsSpace(ch) == ch \in {" ", "\t", "\n"}

RECURSIVE TrimLeft(_)
TrimLeft(s) ==
    IF s = <<>> THEN <<>>
    ELSE IF IsSpace(Head(s)) THEN TrimLeft(Tail(s)) ELSE s

RECURSIVE TrimRight(_)
TrimRight(s) ==
    IF s = <<>> THEN <<>>
    ELSE IF IsSpace(s[Len(s)]) THEN TrimRight(SubSeq(s, 1, Len(s) - 1)) ELSE s

\* strings.TrimSpace
TrimSpace(s) == TrimRight(TrimLeft(s))

\* all texts over alphabet A of length at most n
RECURSIVE TextsUpTo(_, _)
TextsUpTo(A, n) ==
    IF n = 0 THEN {<<>>}
    ELSE LET shorter == TextsUpTo(A, n - 1)
         IN  shorter \cup {Append(s, ch) : s \in shorter, ch \in A}

-----------------------------------------------------------------------------
(* Validation rules: service.go *)

\* one step of the automaton of ^\d+(\.\d{1,2})?$
PatternStep(q, ch) ==
    CASE q = "start" /\ ch \in Digits -> "int"
      [] q = "int"   /\ ch \in Digits -> "int"
      [] q = "int"   /\ ch = "."      -> "dot"
      [] q = "dot"   /\ ch \in Digits -> "frac1"
      [] q = "frac1" /\ ch \in Digits -> "frac2"
      [] OTHER -> "fail"

RECURSIVE PatternRun(_, _)
PatternRun(q, s) ==
    IF s = <<>> THEN q ELSE PatternRun(PatternStep(q, Head(s)), Tail(s))

\* a pattern that forgets the anchors' demand of a digit before the point
pricePatternLeadingPoint(s) ==
    \/ PatternRun("start", s) \in {"int", "frac1", "frac2"}
    \/ PatternRun("int", s) \in {"frac1", "frac2"}

\* pricePattern.MatchString
pricePattern(s) == PatternRun("start", s) \in {"int", "frac1", "frac2"}

isPositiveNonZero(price) ==
    \E i \in 1..Len(price) : price[i] \in NonZeroDigits

isValidPrice(value) ==
    LET price == TrimSpace(value)
    IN  IF ~pricePattern(price) THEN FALSE ELSE isPositiveNonZero(price)

-----------------------------------------------------------------------------
(* Domain errors (service.go) and the storage driver's signals.  "" is nil. *)

ErrorInvalidInput == "invalid input"
ErrorDuplicateName == "duplicate item name"
ErrorNotFound == "item not found"
ErrNoRows == "pgx: no rows in result set"
\* pgconn.PgError codes raised by the items table, and a failed connection
UniqueViolation == "23505"
CheckViolation == "23514"
NumericOverflow == "22003"
InvalidText == "22P02"
ConnFailed == "conn"

DomainErrors == {ErrorInvalidInput, ErrorDuplicateName, ErrorNotFound}

\* the zero Item{} returned next to an error
NoItem == [id |-> 0, name |-> <<>>, description |-> <<>>, price |-> <<>>,
           stock |-> 0, created_at |-> 0, updated_at |-> 0]

-----------------------------------------------------------------------------
(* The items table: migrations/0001_init_items.up.sql *)

RECURSIVE StripZeros(_)
StripZeros(s) ==
    IF Len(s) > 1 /\ Head(s) = "0" THEN StripZeros(Tail(s)) ELSE s

PointAt(s) == IF \E i \in 1..Len(s) : s[i] = "."
              THEN CHOOSE i \in 1..Len(s) : s[i] = "."
              ELSE Len(s) + 1

\* numeric input syntax for unsigned decimals of at most two fraction digits
\* (the only shape the Service lets through); whitespace around the number
\* is skipped and a leading point is read as 0.
NumericSyntaxOk(s) ==
    \/ PatternRun("start", TrimSpace(s)) \in {"int", "frac1", "frac2"}
    \/ PatternRun("int", TrimSpace(s)) \in {"frac1", "frac2"}

\* price numeric(10,2): the text is stored scaled to two fraction digits
NumericCanon(s) ==
    LET t    == TrimSpace(s)
        p    == PointAt(t)
        ip   == SubSeq(t, 1, p - 1)
        fp   == SubSeq(t, p + 1, Len(t))
        int  == StripZeros(IF ip = <<>> THEN <<"0">> ELSE ip)
        frac == IF Len(fp) = 0 THEN <<"0", "0">>
                ELSE IF Len(fp) = 1 THEN fp \o <<"0">> ELSE fp
    IN  int \o <<".">> \o frac

\* digits before the point that numeric(10,2) can hold
NumericIntDigits == 8

NumericFits(canon) == PointAt(canon) - 1 <= NumericIntDigits

\* ck_items_price_positive
PricePositive(canon) == \E i \in 1..Len(canon) : canon[i] \in NonZeroDigits

\* ck_items_stock_non_negative
StockNonNegative(stock) == stock >= 0

\* ux_items_name, without the comparison of names
NameFreeNoIndex(rows, name, self) == TRUE

\* ux_items_name: no other row carries the name
NameFree(rows, name, self) ==
    \A r \in rows : r.id = self \/ r.name # name

\* the errors the values of a statement raise, in the order the engine raises
\* them: $n::numeric input syntax when the parameters are bound, the coercion
\* to numeric(10,2), then the CHECK constraints of the row to be written
SyntaxError(price) ==
    IF price # <<>> /\ ~NumericSyntaxOk(price[1]) THEN InvalidText ELSE ""

CoercionError(price) ==
    IF price # <<>> /\ ~NumericFits(NumericCanon(price[1])) THEN NumericOverflow
    ELSE ""

ConstraintError(price, stock) ==
    IF price # <<>> /\ ~PricePositive(NumericCanon(price[1])) THEN CheckViolation
    ELSE IF stock # <<>> /\ ~StockNonNegative(stock[1]) THEN CheckViolation
    ELSE ""

\* A result used more than once is bound as the one element of a set, so
\* that it is computed once.
The(S) == CHOOSE v \in S : TRUE

\* what the values of an INSERT raise, if anything
InsertValueError(price, stock) ==
    IF SyntaxError(<<price>>) # "" THEN SyntaxError(<<price>>)
    ELSE IF CoercionError(<<price>>) # "" THEN CoercionError(<<price>>)
    ELSE ConstraintError(<<price>>, <<stock>>)

\* the database the repository talks to: st = [items, nextId, clock],
\* env = [up, fold]: up = the connection works; fold = the planner evaluates
\* the bound parameters' coercions before it looks for the row

\* INSERT INTO items (name, description, price, stock) VALUES ... RETURNING ...
DbInsert(st, env, name, description, price, stock) ==
    IF ~env.up THEN [err |-> ConnFailed, row |-> NoItem, st |-> st]
    ELSE The({
        IF verr # "" THEN [err |-> verr, row |-> NoItem, st |-> st]
        ELSE IF ~NameFree(st.items, name, 0)
        THEN [err |-> UniqueViolation, row |-> NoItem, st |-> st]
        ELSE The({ [err |-> "", row |-> row,
                    st |-> [items |-> st.items \cup {row}, nextId |-> st.nextId + 1,
                            clock |-> st.clock + 1]] :
                   row \in {[id |-> st.nextId + 1, name |-> name,
                             description |-> description,
                             price |-> NumericCanon(price), stock |-> stock,
                             created_at |-> st.clock + 1,
                             updated_at |-> st.clock + 1]} }) :
        verr \in {InsertValueError(price, stock)} })

\* SELECT ... FROM items WHERE id = $1
DbSelectById(st, env, id) ==
    IF ~env.up THEN [err |-> ConnFailed, row |-> NoItem]
    ELSE IF \E r \in st.items : r.id = id
         THEN [err |-> "", row |-> CHOOSE r \in st.items : r.id = id]
    ELSE [err |-> ErrNoRows, row |-> NoItem]

\* an assignment that writes the whole row, a stock that is not given as 0
AssignedResetsStock(old, set, now) ==
    [id |-> old.id,
     name |-> IF set.name # <<>> THEN set.name[1] ELSE old.name,
     description |-> IF set.descSet THEN set.description ELSE old.description,
     price |-> IF set.price # <<>> THEN NumericCanon(set.price[1]) ELSE old.price,
     stock |-> IF set.stock # <<>> THEN set.stock[1] ELSE 0,
     created_at |-> old.created_at,
     updated_at |-> now]

\* the row old after SET set, updated_at = now()
Assigned(old, set, now) ==
    [id |-> old.id,
     name |-> IF set.name # <<>> THEN set.name[1] ELSE old.name,
     description |-> IF set.descSet THEN set.description ELSE old.description,
     price |-> IF set.price # <<>> THEN NumericCanon(set.price[1]) ELSE old.price,
     stock |-> IF set.stock # <<>> THEN set.stock[1] ELSE old.stock,
     created_at |-> old.created_at,
     updated_at |-> now]

\* UPDATE items SET <set>, updated_at = now() WHERE id = $n RETURNING ...
\* set = [name, descSet, description, price, stock]; name, price, stock are
\* <<>> (column not in the SET list) or <<v>>
DbUpdate(st, env, id, set) ==
    IF ~env.up THEN [err |-> ConnFailed, row |-> NoItem, st |-> st]
    ELSE IF SyntaxError(set.price) # ""
    THEN [err |-> SyntaxError(set.price), row |-> NoItem, st |-> st]
    ELSE IF CoercionError(set.price) # "" /\ (env.fold \/ \E r \in st.items : r.id = id)
    THEN [err |-> CoercionError(set.price), row |-> NoItem, st |-> st]
    ELSE IF ~\E r \in st.items : r.id = id
    THEN [err |-> ErrNoRows, row |-> NoItem, st |-> st]
    ELSE IF ConstraintError(set.price, set.stock) # ""
    THEN [err |-> ConstraintError(set.price, set.stock), row |-> NoItem, st |-> st]
    ELSE The({
        IF ~NameFree(st.items, new.name, id)
        THEN [err |-> UniqueViolation, row |-> NoItem, st |-> st]
        ELSE [err |-> "", row |-> new,
              st |-> [items |-> {r \in st.items : r.id # id} \cup {new},
                      nextId |-> st.nextId, clock |-> st.clock + 1]] :
        new \in {Assigned(CHOOSE r \in st.items : r.id = id, set, st.clock + 1)} })

\* a DELETE that reports the row and leaves it in the table
DbDeleteKeepsRow(st, env, id) ==
    IF ~env.up THEN [err |-> ConnFailed, st |-> st]
    ELSE IF \E r \in st.items : r.id = id THEN [err |-> "", st |-> st]
    ELSE [err |-> ErrNoRows, st |-> st]

\* DELETE FROM items WHERE id = $1 RETURNING id
DbDelete(st, env, id) ==
    IF ~env.up THEN [err |-> ConnFailed, st |-> st]
    ELSE IF \E r \in st.items : r.id = id
         THEN [err |-> "",
               st |-> [items |-> {r \in st.items : r.id # id},
                       nextId |-> st.nextId, clock |-> st.clock]]
    ELSE [err |-> ErrNoRows, st |-> st]

-----------------------------------------------------------------------------
(* Repository: the SQL of each operation and the mapping of its errors.    *)
(* Each operator returns the Go results and the store after the statement. *)

\* an Insert that hands the driver's unique violation to its caller
RepositoryInsertRawError(st, env, input) ==
    The({ [item |-> r.row, err |-> r.err, st |-> r.st] :
          r \in {DbInsert(st, env, input.Name, input.Description, input.Price,
                          input.Stock)} })

\* an Insert that returns the price text it was given, not price::text
RepositoryInsertReturnsInput(st, env, input) ==
    The({ IF r.err # ""
          THEN IF r.err = UniqueViolation
               THEN [item |-> NoItem, err |-> ErrorDuplicateName, st |-> r.st]
               ELSE [item |-> NoItem, err |-> r.err, st |-> r.st]
          ELSE [item |-> [r.row EXCEPT !.price = input.Price], err |-> "", st |-> r.st] :
          r \in {DbInsert(st, env, input.Name, input.Description, input.Price,
                          input.Stock)} })

RepositoryInsert(st, env, input) ==
    The({ IF r.err # ""
          THEN IF r.err = UniqueViolation
               THEN [item |-> NoItem, err |-> ErrorDuplicateName, st |-> r.st]
               ELSE [item |-> NoItem, err |-> r.err, st |-> r.st]
          ELSE [item |-> r.row, err |-> "", st |-> r.st] :
          r \in {DbInsert(st, env, input.Name, input.Description, input.Price,
                          input.Stock)} })

ToLower(ch) == CASE ch = "A" -> "a" [] ch = "B" -> "b" [] OTHER -> ch

\* name ILIKE pattern: % is any run of characters, _ any one character
RECURSIVE ILike(_, _)
ILike(s, pat) ==
    IF pat = <<>> THEN s = <<>>
    ELSE IF Head(pat) = "%"
         THEN ILike(s, Tail(pat)) \/ (s # <<>> /\ ILike(Tail(s), pat))
    ELSE IF s = <<>> THEN FALSE
    ELSE /\ Head(pat) = "_" \/ ToLower(Head(pat)) = ToLower(Head(s))
         /\ ILike(Tail(s), Tail(pat))

\* the WHERE clause shared by List and Count
Filtered(rows, nameQuery) ==
    IF nameQuery = <<>> THEN rows
    ELSE {r \in rows : ILike(r.name, <<"%">> \o nameQuery \o <<"%">>)}

\* ORDER BY created_at DESC
RECURSIVE OrderByCreatedDesc(_)
OrderByCreatedDesc(rows) ==
    IF rows = {} THEN <<>>
    ELSE The({ <<first>> \o OrderByCreatedDesc(rows \ {first}) :
               first \in {CHOOSE r \in rows :
                              \A o \in rows : o.created_at <= r.created_at} })

\* LIMIT limit OFFSET offset
LimitOffset(seq, limit, offset) ==
    SubSeq(seq, offset + 1, IF offset + limit < Len(seq) THEN offset + limit ELSE Len(seq))

RepositoryList(st, env, nameQuery, limit, offset) ==
    IF ~env.up THEN [items |-> <<>>, err |-> ConnFailed]
    ELSE [items |-> LimitOffset(OrderByCreatedDesc(Filtered(st.items, nameQuery)),
                                limit, offset),
          err |-> ""]

\* Count without the WHERE clause of List
RepositoryCountUnfiltered(st, env, nameQuery) ==
    IF ~env.up THEN [total |-> 0, err |-> ConnFailed]
    ELSE [total |-> Cardinality(st.items), err |-> ""]

RepositoryCount(st, env, nameQuery) ==
    IF ~env.up THEN [total |-> 0, err |-> ConnFailed]
    ELSE [total |-> Cardinality(Filtered(st.items, nameQuery)), err |-> ""]

RepositoryGetByID(st, env, id) ==
    The({ IF r.err # "" THEN [item |-> NoItem, err |-> r.err, st |-> st]
          ELSE [item |-> r.row, err |-> "", st |-> st] :
          r \in {DbSelectById(st, env, id)} })

\* the number of entries of setParts before updated_at is appended
SetParts(in) ==
    (IF in.Name # <<>> THEN 1 ELSE 0) + (IF in.DescriptionPresent THEN 1 ELSE 0)
    + (IF in.Price # <<>> THEN 1 ELSE 0) + (IF in.Stock # <<>> THEN 1 ELSE 0)

\* a SET list that always assigns the description
SetListDescriptionAlways(in) ==
    [name |-> in.Name, descSet |-> TRUE,
     description |-> in.Description, price |-> in.Price, stock |-> in.Stock]

\* the SET list built from the input
SetList(in) ==
    [name |-> in.Name, descSet |-> in.DescriptionPresent,
     description |-> in.Description, price |-> in.Price, stock |-> in.Stock]

\* an Update that hands the driver's unique violation to its caller
RepositoryUpdateRawUnique(st, env, id, in) ==
    IF SetParts(in) = 0 THEN [item |-> NoItem, err |-> ErrorInvalidInput, st |-> st]
    ELSE The({ IF r.err # ""
               THEN IF r.err = ErrNoRows
                    THEN [item |-> NoItem, err |-> ErrorNotFound, st |-> r.st]
                    ELSE [item |-> NoItem, err |-> r.err, st |-> r.st]
               ELSE [item |-> r.row, err |-> "", st |-> r.st] :
               r \in {DbUpdate(st, env, id, SetList(in))} })

RepositoryUpdate(st, env, id, in) ==
    IF SetParts(in) = 0 THEN [item |-> NoItem, err |-> ErrorInvalidInput, st |-> st]
    ELSE The({ IF r.err # ""
               THEN IF r.err = ErrNoRows
                    THEN [item |-> NoItem, err |-> ErrorNotFound, st |-> r.st]
                    ELSE IF r.err = UniqueViolation
                    THEN [item |-> NoItem, err |-> ErrorDuplicateName, st |-> r.st]
                    ELSE [item |-> NoItem, err |-> r.err, st |-> r.st]
               ELSE [item |-> r.row, err |-> "", st |-> r.st] :
               r \in {DbUpdate(st, env, id, SetList(in))} })

\* a Delete that hands the driver's no-rows signal to its caller
RepositoryDeleteRawError(st, env, id) ==
    The({ [err |-> r.err, st |-> r.st] : r \in {DbDelete(st, env, id)} })

RepositoryDelete(st, env, id) ==
    The({ IF r.err # ""
          THEN IF r.err = ErrNoRows THEN [err |-> ErrorNotFound, st |-> r.st]
               ELSE [err |-> r.err, st |-> r.st]
          ELSE [err |-> "", st |-> r.st] :
          r \in {DbDelete(st, env, id)} })

-----------------------------------------------------------------------------
(* Service: service.go.  calls is the sequence of Repository calls made.   *)

Call(fn, args, err) == [fn |-> fn, args |-> args, err |-> err]

Invalid(st) == [item |-> NoItem, err |-> ErrorInvalidInput, st |-> st, calls |-> <<>>]

\* a Create that validates the name it was given and persists it untrimmed
ServiceCreateNoTrim(st, env, itemInput) ==
    IF TrimSpace(itemInput.Name) = <<>> \/ ~isValidPrice(itemInput.Price)
       \/ itemInput.Stock < 0
    THEN Invalid(st)
    ELSE The({ [item |-> r.item, err |-> r.err, st |-> r.st,
                calls |-> <<Call("Insert", itemInput, r.err)>>] :
               r \in {RepositoryInsert(st, env, itemInput)} })

\* a Create that leaves the stock to the table's CHECK constraint
ServiceCreateNoStockCheck(st, env, itemInput) ==
    The({ IF input.Name = <<>> \/ input.Price = <<>> \/ ~isValidPrice(input.Price)
          THEN Invalid(st)
          ELSE The({ [item |-> r.item, err |-> r.err, st |-> r.st,
                      calls |-> <<Call("Insert", input, r.err)>>] :
                     r \in {RepositoryInsert(st, env, input)} }) :
          input \in {[itemInput EXCEPT !.Name = TrimSpace(itemInput.Name),
                                       !.Price = TrimSpace(itemInput.Price)]} })

ServiceCreate(st, env, itemInput) ==
    The({ IF input.Name = <<>> THEN Invalid(st)
          ELSE IF input.Price = <<>> THEN Invalid(st)
          ELSE IF ~isValidPrice(input.Price) THEN Invalid(st)
          ELSE IF input.Stock < 0 THEN Invalid(st)
          ELSE The({ IF r.err # ""
                     THEN IF r.err = ErrorDuplicateName
                          THEN [item |-> NoItem, err |-> ErrorDuplicateName,
                                st |-> r.st,
                                calls |-> <<Call("Insert", input, r.err)>>]
                          ELSE [item |-> NoItem, err |-> r.err, st |-> r.st,
                                calls |-> <<Call("Insert", input, r.err)>>]
                     ELSE [item |-> r.item, err |-> "", st |-> r.st,
                           calls |-> <<Call("Insert", input, r.err)>>] :
                     r \in {RepositoryInsert(st, env, input)} }) :
          input \in {[itemInput EXCEPT !.Name = TrimSpace(itemInput.Name),
                                       !.Price = TrimSpace(itemInput.Price)]} })

ListResult(items_, total, err, calls, query, counting) ==
    [items |-> items_, total |-> total, err |-> err, calls |-> calls,
     query |-> query, counting |-> counting]

\* Service.List with the offset computed as page * limit
ServiceListRowsOffsetFromPage(st, env, page, limit, nameQuery) ==
    IF page < 1 \/ limit < 1
    THEN ListResult(<<>>, 0, ErrorInvalidInput, <<>>, TrimSpace(nameQuery), FALSE)
    ELSE The({ The({ IF r.err # ""
                     THEN ListResult(<<>>, 0, r.err, <<Call("List", args, r.err)>>,
                                     args.query, FALSE)
                     ELSE ListResult(r.items, 0, "", <<Call("List", args, r.err)>>,
                                     args.query, TRUE) :
                     r \in {RepositoryList(st, env, args.query, args.limit,
                                           args.offset)} }) :
               args \in {[query |-> TrimSpace(nameQuery), limit |-> limit,
                          offset |-> page * limit]} })

\* Service.List up to the return of Repository.List
ServiceListRows(st, env, page, limit, nameQuery) ==
    IF page < 1 \/ limit < 1
    THEN ListResult(<<>>, 0, ErrorInvalidInput, <<>>, TrimSpace(nameQuery), FALSE)
    ELSE The({ The({ IF r.err # ""
                     THEN ListResult(<<>>, 0, r.err, <<Call("List", args, r.err)>>,
                                     args.query, FALSE)
                     ELSE ListResult(r.items, 0, "", <<Call("List", args, r.err)>>,
                                     args.query, TRUE) :
                     r \in {RepositoryList(st, env, args.query, args.limit,
                                           args.offset)} }) :
               args \in {[query |-> TrimSpace(nameQuery), limit |-> limit,
                          offset |-> (page - 1) * limit]} })

\* a List that returns the items it has when Repository.Count fails
ServiceListCountKeepsItems(st, env, listed) ==
    The({ IF r.err # ""
          THEN ListResult(listed.items, 0, r.err,
                          Append(listed.calls,
                                 Call("Count", [query |-> listed.query], r.err)),
                          listed.query, FALSE)
          ELSE ListResult(listed.items, r.total, "",
                          Append(listed.calls,
                                 Call("Count", [query |-> listed.query], r.err)),
                          listed.query, FALSE) :
          r \in {RepositoryCount(st, env, listed.query)} })

\* Service.List from the call of Repository.Count on; listed is what
\* ServiceListRows returned
ServiceListCount(st, env, listed) ==
    The({ IF r.err # ""
          THEN ListResult(<<>>, 0, r.err,
                          Append(listed.calls,
                                 Call("Count", [query |-> listed.query], r.err)),
                          listed.query, FALSE)
          ELSE ListResult(listed.items, r.total, "",
                          Append(listed.calls,
                                 Call("Count", [query |-> listed.query], r.err)),
                          listed.query, FALSE) :
          r \in {RepositoryCount(st, env, listed.query)} })

\* a Get that reports every error of the Repository as NotFound
ServiceGetAllNotFound(st, env, id) ==
    The({ IF r.err # ""
          THEN [item |-> NoItem, err |-> ErrorNotFound, st |-> st,
                calls |-> <<Call("GetByID", [id |-> id], r.err)>>]
          ELSE [item |-> r.item, err |-> "", st |-> st,
                calls |-> <<Call("GetByID", [id |-> id], r.err)>>] :
          r \in {RepositoryGetByID(st, env, id)} })

ServiceGet(st, env, id) ==
    The({ IF r.err # ""
          THEN IF r.err = ErrNoRows
               THEN [item |-> NoItem, err |-> ErrorNotFound, st |-> st,
                     calls |-> <<Call("GetByID", [id |-> id], r.err)>>]
               ELSE [item |-> NoItem, err |-> r.err, st |-> st,
                     calls |-> <<Call("GetByID", [id |-> id], r.err)>>]
          ELSE [item |-> r.item, err |-> "", st |-> st,
                calls |-> <<Call("GetByID", [id |-> id], r.err)>>] :
          r \in {RepositoryGetByID(st, env, id)} })

\* the presence check of Update, which reads the four pointers only
NoFieldGiven(in) ==
    in.Name = <<>> /\ in.Description = <<>> /\ in.Price = <<>> /\ in.Stock = <<>>

\* the input with the name and the price that are given trimmed
Trimmed(in) ==
    [in EXCEPT !.Name  = IF in.Name # <<>> THEN <<TrimSpace(in.Name[1])>> ELSE <<>>,
               !.Price = IF in.Price # <<>> THEN <<TrimSpace(in.Price[1])>> ELSE <<>>]

\* an Update without the presence check
ServiceUpdateNoPresenceCheck(st, env, id, itemInputUpdated) ==
    The({ [item |-> r.item, err |-> r.err, st |-> r.st,
           calls |-> <<Call("Update", [id |-> id, in |-> itemInputUpdated], r.err)>>] :
          r \in {RepositoryUpdate(st, env, id, itemInputUpdated)} })

\* an Update that validates the name only
ServiceUpdateNameOnly(st, env, id, itemInputUpdated) ==
    The({ IF NoFieldGiven(itemInputUpdated)
             \/ (input.Name # <<>> /\ input.Name[1] = <<>>)
          THEN Invalid(st)
          ELSE The({ [item |-> r.item, err |-> r.err, st |-> r.st,
                      calls |-> <<Call("Update", [id |-> id, in |-> input], r.err)>>] :
                     r \in {RepositoryUpdate(st, env, id, input)} }) :
          input \in {Trimmed(itemInputUpdated)} })

ServiceUpdate(st, env, id, itemInputUpdated) ==
    The({ IF NoFieldGiven(itemInputUpdated) THEN Invalid(st)
          ELSE IF input.Name # <<>> /\ input.Name[1] = <<>> THEN Invalid(st)
          ELSE IF input.Price # <<>> /\ input.Price[1] = <<>> THEN Invalid(st)
          ELSE IF input.Price # <<>> /\ ~isValidPrice(input.Price[1]) THEN Invalid(st)
          ELSE IF input.Stock # <<>> /\ input.Stock[1] < 0 THEN Invalid(st)
          ELSE The({ IF r.err # ""
                     THEN IF r.err = ErrorNotFound
                          THEN [item |-> NoItem, err |-> ErrorNotFound, st |-> r.st,
                                calls |-> <<Call("Update", [id |-> id, in |-> input],
                                                 r.err)>>]
                          ELSE IF r.err = ErrorDuplicateName
                          THEN [item |-> NoItem, err |-> ErrorDuplicateName,
                                st |-> r.st,
                                calls |-> <<Call("Update", [id |-> id, in |-> input],
                                                 r.err)>>]
                          ELSE [item |-> NoItem, err |-> r.err, st |-> r.st,
                                calls |-> <<Call("Update", [id |-> id, in |-> input],
                                                 r.err)>>]
                     ELSE [item |-> r.item, err |-> "", st |-> r.st,
                           calls |-> <<Call("Update", [id |-> id, in |-> input],
                                            r.err)>>] :
                     r \in {RepositoryUpdate(st, env, id, input)} }) :
          input \in {Trimmed(itemInputUpdated)} })

ServiceDelete(st, env, id) ==
    The({ [item |-> NoItem, err |-> r.err, st |-> r.st,
           calls |-> <<Call("Delete", [id |-> id], r.err)>>] :
          r \in {RepositoryDelete(st, env, id)} })

-----------------------------------------------------------------------------
(* HTTP handler: handler.go, response.go *)

\* JSON members: <<>> key absent, <<"null">>, <<"s", text>>, <<"n", number>>
JAbsent == <<>>
JNull == <<"null">>
JStr(t) == <<"s", t>>
JNum(n) == <<"n", n>>
JKind(m) == IF m = <<>> THEN "absent" ELSE m[1]

\* encoding/json into a string / *string / int / *int field
FitsString(m) == JKind(m) \in {"absent", "null", "s"}
FitsInt(m) == JKind(m) \in {"absent", "null", "n"}
AsString(m) == IF JKind(m) = "s" THEN m[2] ELSE <<>>
AsInt(m) == IF JKind(m) = "n" THEN m[2] ELSE 0
AsPointer(m) == IF JKind(m) \in {"s", "n"} THEN <<m[2]>> ELSE <<>>

NoInput == [Name |-> <<>>, Description |-> <<>>, Price |-> <<>>, Stock |-> <<>>,
            DescriptionPresent |-> FALSE]

\* httpx.Fail / httpx.OK, with what the handler did on the way
Response(status, code, message, svc, input) ==
    [status |-> status, code |-> code, message |-> message,
     called |-> svc.called, err |-> svc.err, calls |-> svc.calls,
     item |-> svc.item, items |-> svc.items, total |-> svc.total,
     page |-> svc.page, limit |-> svc.limit, query |-> svc.query,
     input |-> input]

\* the Service was not called
NotCalled == [called |-> FALSE, err |-> "", calls |-> <<>>, item |-> NoItem,
              items |-> <<>>, total |-> 0, page |-> 0, limit |-> 0, query |-> <<>>]

Called(r) == [called |-> TRUE, err |-> r.err, calls |-> r.calls, item |-> r.item,
              items |-> <<>>, total |-> 0, page |-> 0, limit |-> 0, query |-> <<>>]

CalledList(r, page, limit) ==
    [called |-> TRUE, err |-> r.err, calls |-> r.calls, item |-> NoItem,
     items |-> r.items, total |-> r.total, page |-> page, limit |-> limit,
     query |-> r.query]

InternalError == [status |-> 500, code |-> "internal_error",
                  message |-> "unexpected error"]
InvalidInputError == [status |-> 400, code |-> "invalid_input",
                      message |-> "invalid input data"]
ConflictError == [status |-> 409, code |-> "conflict",
                  message |-> "item name already exists"]
NotFoundError == [status |-> 404, code |-> "not_found", message |-> "item not found"]

\* a Create switch whose default branch answers with the error's own text
CreateErrorExposesDetail(err) ==
    IF err = ErrorInvalidInput THEN InvalidInputError
    ELSE IF err = ErrorDuplicateName THEN ConflictError
    ELSE [status |-> 500, code |-> "internal_error", message |-> err]

\* the error switch of each handler
CreateError(err) ==
    IF err = ErrorInvalidInput THEN InvalidInputError
    ELSE IF err = ErrorDuplicateName THEN ConflictError
    ELSE InternalError

ListError(err) ==
    IF err = ErrorInvalidInput THEN InvalidInputError ELSE InternalError

GetByIDError(err) ==
    IF err = ErrorNotFound THEN NotFoundError ELSE InternalError

PatchError(err) ==
    IF err = ErrorInvalidInput THEN InvalidInputError
    ELSE IF err = ErrorNotFound THEN NotFoundError
    ELSE IF err = ErrorDuplicateName THEN ConflictError
    ELSE InternalError

\* a Delete switch that knows no domain error
DeleteErrorAllInternal(err) == InternalError

DeleteError(err) ==
    IF err = ErrorNotFound THEN NotFoundError ELSE InternalError

\* uuid.Parse: the path ids of the model are numbers, 0 being a text that is
\* no UUID
UuidParseOk(id) == id # 0

\* encoding/json decodes the members of the body into the fields
Decodes(body) ==
    /\ FitsString(body.name) /\ FitsString(body.description)
    /\ FitsString(body.price) /\ FitsInt(body.stock)

InvalidJson == Response(400, "invalid_json", "invalid JSON body", NotCalled, NoInput)
InvalidId == Response(400, "invalid_id", "id must be a valid UUID", NotCalled, NoInput)

Failed(e, svc, input) == Response(e.status, e.code, e.message, svc, input)

HandlerCreate(st, env, body) ==
    IF body.syntax # "object" \/ ~Decodes(body) THEN [resp |-> InvalidJson, st |-> st]
    ELSE The({ The({ IF r.err # ""
                     THEN [resp |-> Failed(CreateError(r.err), Called(r), itemInput),
                           st |-> r.st]
                     ELSE [resp |-> Response(201, "", "", Called(r), itemInput),
                           st |-> r.st] :
                     r \in {ServiceCreate(st, env, itemInput)} }) :
               itemInput \in {[Name |-> AsString(body.name),
                               Description |-> AsPointer(body.description),
                               Price |-> AsString(body.price),
                               Stock |-> AsInt(body.stock)]} })

\* Handler.GetByID without the uuid.Parse check
HandlerGetByIDNoParse(st, env, id) ==
    The({ IF r.err # ""
          THEN [resp |-> Failed(GetByIDError(r.err), Called(r), NoInput),
                st |-> st]
          ELSE [resp |-> Response(200, "", "", Called(r), NoInput), st |-> st] :
          r \in {ServiceGet(st, env, id)} })

HandlerGetByID(st, env, id) ==
    IF ~UuidParseOk(id) THEN [resp |-> InvalidId, st |-> st]
    ELSE The({ IF r.err # ""
               THEN [resp |-> Failed(GetByIDError(r.err), Called(r), NoInput),
                     st |-> st]
               ELSE [resp |-> Response(200, "", "", Called(r), NoInput), st |-> st] :
               r \in {ServiceGet(st, env, id)} })

\* the UpdateItemInput with DescriptionPresent taken from the decoded pointer
PatchInputPresentWhenString(body) ==
    [Name |-> AsPointer(body.name),
     Description |-> AsPointer(body.description),
     Price |-> AsPointer(body.price), Stock |-> AsPointer(body.stock),
     DescriptionPresent |-> AsPointer(body.description) # <<>>]

\* the UpdateItemInput decoded from the body, DescriptionPresent being
\* whether the raw map has the key
PatchInput(body) ==
    [Name |-> AsPointer(body.name),
     Description |-> AsPointer(body.description),
     Price |-> AsPointer(body.price), Stock |-> AsPointer(body.stock),
     DescriptionPresent |-> body.description # JAbsent]

HandlerPatch(st, env, id, body) ==
    IF ~UuidParseOk(id) THEN [resp |-> InvalidId, st |-> st]
    ELSE IF body.syntax # "object" \/ ~Decodes(body)
    THEN [resp |-> InvalidJson, st |-> st]
    ELSE The({ The({ IF r.err # ""
                     THEN [resp |-> Failed(PatchError(r.err), Called(r),
                                           itemInputUpdated),
                           st |-> r.st]
                     ELSE [resp |-> Response(200, "", "", Called(r), itemInputUpdated),
                           st |-> r.st] :
                     r \in {ServiceUpdate(st, env, id, itemInputUpdated)} }) :
               itemInputUpdated \in {PatchInput(body)} })

HandlerDelete(st, env, id) ==
    IF ~UuidParseOk(id) THEN [resp |-> InvalidId, st |-> st]
    ELSE The({ IF r.err # ""
               THEN [resp |-> Failed(DeleteError(r.err), Called(r), NoInput),
                     st |-> r.st]
               ELSE [resp |-> Response(204, "", "", Called(r), NoInput), st |-> r.st] :
               r \in {ServiceDelete(st, env, id)} })

\* strconv.Atoi: an optional sign and one or more digits
DigitSeq == <<"0", "1", "2", "3", "4", "5", "6", "7", "8", "9">>
DigitValue(ch) == (CHOOSE i \in 1..Len(DigitSeq) : DigitSeq[i] = ch) - 1

RECURSIVE DecimalValue(_)
DecimalValue(s) ==
    IF s = <<>> THEN 0
    ELSE 10 * DecimalValue(SubSeq(s, 1, Len(s) - 1)) + DigitValue(s[Len(s)])

Atoi(s) ==
    LET signed == s # <<>> /\ Head(s) \in {"+", "-"}
        digits == IF signed THEN Tail(s) ELSE s
        ok     == digits # <<>> /\ \A i \in 1..Len(digits) : digits[i] \in Digits
    IN  IF ~ok THEN [value |-> 0, err |-> "invalid syntax"]
        ELSE [value |-> IF signed /\ Head(s) = "-" THEN 0 - DecimalValue(digits)
                        ELSE DecimalValue(digits),
              err |-> ""]

defaultPage == 1
defaultLimit == 20
maxLimit == 100

\* parsePagination without the cap of the limit
parsePaginationNoCap(pageParam, limitParam) ==
    The({ IF pv # <<>> /\ (pn.err # "" \/ pn.value < 1)
          THEN [page |-> 0, limit |-> 0, err |-> pn.err]
          ELSE IF lv # <<>> /\ (ln.err # "" \/ ln.value < 1)
          THEN [page |-> 0, limit |-> 0, err |-> ln.err]
          ELSE [page  |-> IF pv # <<>> THEN pn.value ELSE defaultPage,
                limit |-> IF lv # <<>> THEN ln.value ELSE defaultLimit,
                err |-> ""] :
          pv \in {TrimSpace(pageParam)}, lv \in {TrimSpace(limitParam)},
          pn \in {Atoi(TrimSpace(pageParam))}, ln \in {Atoi(TrimSpace(limitParam))} })

\* parsePagination: the error it returns is the one Atoi returned
parsePagination(pageParam, limitParam) ==
    The({ IF pv # <<>> /\ (pn.err # "" \/ pn.value < 1)
          THEN [page |-> 0, limit |-> 0, err |-> pn.err]
          ELSE IF lv # <<>> /\ (ln.err # "" \/ ln.value < 1)
          THEN [page |-> 0, limit |-> 0, err |-> ln.err]
          ELSE [page  |-> IF pv # <<>> THEN pn.value ELSE defaultPage,
                limit |-> IF lv # <<>>
                          THEN IF ln.value > maxLimit THEN maxLimit ELSE ln.value
                          ELSE defaultLimit,
                err |-> ""] :
          pv \in {TrimSpace(pageParam)}, lv \in {TrimSpace(limitParam)},
          pn \in {Atoi(TrimSpace(pageParam))}, ln \in {Atoi(TrimSpace(limitParam))} })

\* Handler.List up to the return of Repository.List; a response of status 0
\* is one not written yet (the Service is about to call Repository.Count)
HandlerListRows(st, env, pageParam, limitParam, queryParam) ==
    The({ IF p.err # ""
          THEN Response(400, "invalid_pagination", "invalid pagination parameters",
                        NotCalled, NoInput)
          ELSE The({ IF r.err # ""
                     THEN Failed(ListError(r.err), CalledList(r, p.page, p.limit),
                                 NoInput)
                     ELSE Response(0, "", "", CalledList(r, p.page, p.limit), NoInput) :
                     r \in {ServiceListRows(st, env, p.page, p.limit,
                                            TrimSpace(queryParam))} }) :
          p \in {parsePagination(pageParam, limitParam)} })

\* Handler.List from Repository.Count on
HandlerListCount(st, env, listed) ==
    The({ IF r.err # ""
          THEN Failed(ListError(r.err), CalledList(r, listed.page, listed.limit),
                      NoInput)
          ELSE Response(200, "", "", CalledList(r, listed.page, listed.limit), NoInput) :
          r \in {ServiceListCount(st, env, listed)} })

-----------------------------------------------------------------------------
(* Requests of the model *)

Clients == {1, 2}

NameTexts == {<<" ">>, <<" ", "a", " ">>, <<"b">>}
DescriptionText == <<"d">>
BigPrice == <<"1", "0", "0", "0", "0", "0", "0", "0", "0">>
CreatePriceTexts == {<<" ">>, <<"0">>, <<" ", "1", " ">>, BigPrice}
PatchPriceTexts == {<<"0">>, <<"1", ".", "5">>, BigPrice}

NoBody == [syntax |-> "none", name |-> JAbsent, description |-> JAbsent,
           price |-> JAbsent, stock |-> JAbsent]
GarbageBody == [NoBody EXCEPT !.syntax = "garbage"]

CreateBodies ==
    {GarbageBody} \cup
    [syntax : {"object"},
     name : {JStr(n) : n \in NameTexts},
     description : {JAbsent, JStr(DescriptionText)},
     price : {JStr(p) : p \in CreatePriceTexts},
     stock : {JNum(0 - 1), JNum(0)}]

PatchBodies ==
    {GarbageBody} \cup
    [syntax : {"object"},
     name : {JAbsent, JNull} \cup {JStr(n) : n \in NameTexts},
     description : {JAbsent, JNull, JStr(DescriptionText)},
     price : {JAbsent} \cup {JStr(p) : p \in PatchPriceTexts},
     stock : {JAbsent, JNum(0 - 1), JNum(1)}]

\* path ids: 0 is no UUID, the others are the ids the table generates
PathIds == 0..MaxCreates

PageParams == {<<>>, <<"0">>, <<"2">>, <<"x">>}
LimitParams == {<<>>, <<"1">>, <<"1", "0", "1">>}
QueryParams == {<<>>, <<" ", "A">>}

Request(op, id, body, page, limit, query) ==
    [op |-> op, id |-> id, body |-> body, page |-> page, limit |-> limit,
     query |-> query]

NoRequest == Request("none", 0, NoBody, <<>>, <<>>, <<>>)

Requests ==
    {Request("Create", 0, b, <<>>, <<>>, <<>>) : b \in CreateBodies}
    \cup {Request("Patch", id, b, <<>>, <<>>, <<>>) : id \in PathIds, b \in PatchBodies}
    \cup {Request("GetByID", id, NoBody, <<>>, <<>>, <<>>) : id \in PathIds}
    \cup {Request("Delete", id, NoBody, <<>>, <<>>, <<>>) : id \in PathIds}
    \cup {Request("List", 0, NoBody, p, l, q) :
            p \in PageParams, l \in LimitParams, q \in QueryParams}

\* what the storage does with one statement
Envs == [up : BOOLEAN, fold : BOOLEAN]
EnvsNoFold == [up : BOOLEAN, fold : {FALSE}]

NoResponse == Response(0, "", "", NotCalled, NoInput)

-----------------------------------------------------------------------------
(* The state machine: requests in flight over one items table *)

St == [items |-> items, nextId |-> nextId, clock |-> clock]

WithinBounds(st) == st.nextId <= MaxCreates /\ st.clock <= MaxClock

Init ==
    /\ items = {}
    /\ nextId = 0
    /\ clock = 0
    /\ pc = [c \in Clients |-> "idle"]
    /\ req = [c \in Clients |-> NoRequest]
    /\ resp = [c \in Clients |-> NoResponse]
    /\ text = <<>>
    /\ verdict = "unchecked"

\* a request arrives at the router
Receive(c, R) ==
    /\ pc[c] = "idle"
    /\ \E r \in R : req' = [req EXCEPT ![c] = r]
    /\ pc' = [pc EXCEPT ![c] = "pending"]
    /\ UNCHANGED <<items, nextId, clock, resp, text, verdict>>

\* the handler ran: its response, and the store its statement left
Written(c, h) ==
    /\ items' = h.st.items
    /\ nextId' = h.st.nextId
    /\ clock' = h.st.clock
    /\ resp' = [resp EXCEPT ![c] = h.resp]
    /\ pc' = [pc EXCEPT ![c] = "done"]
    /\ UNCHANGED <<req, text, verdict>>

\* the same, within the bounds of the model
Handled(c, h) == WithinBounds(h.st) /\ Written(c, h)

Create(c) ==
    /\ pc[c] = "pending" /\ req[c].op = "Create"
    /\ \E env \in EnvsNoFold : \E h \in {HandlerCreate(St, env, req[c].body)} : Handled(c, h)

GetByID(c) ==
    /\ pc[c] = "pending" /\ req[c].op = "GetByID"
    /\ \E env \in EnvsNoFold : \E h \in {HandlerGetByID(St, env, req[c].id)} : Handled(c, h)

Patch(c) ==
    /\ pc[c] = "pending" /\ req[c].op = "Patch"
    /\ \E env \in Envs : \E h \in {HandlerPatch(St, env, req[c].id, req[c].body)} : Handled(c, h)

Delete(c) ==
    /\ pc[c] = "pending" /\ req[c].op = "Delete"
    /\ \E env \in EnvsNoFold : \E h \in {HandlerDelete(St, env, req[c].id)} : Handled(c, h)

\* Handler.List up to and including Repository.List
ListRows(c) ==
    /\ pc[c] = "pending" /\ req[c].op = "List"
    /\ \E env \in EnvsNoFold :
         \E r \in {HandlerListRows(St, env, req[c].page, req[c].limit, req[c].query)} :
             /\ resp' = [resp EXCEPT ![c] = r]
             /\ pc' = [pc EXCEPT ![c] = IF r.status = 0 THEN "counting" ELSE "done"]
    /\ UNCHANGED <<items, nextId, clock, req, text, verdict>>

\* Repository.Count and the response of Handler.List
ListCount(c) ==
    /\ pc[c] = "counting"
    /\ \E env \in EnvsNoFold :
         resp' = [resp EXCEPT ![c] = HandlerListCount(St, env, resp[c])]
    /\ pc' = [pc EXCEPT ![c] = "done"]
    /\ UNCHANGED <<items, nextId, clock, req, text, verdict>>

\* the response is written and the request is over
Complete(c) ==
    /\ pc[c] = "done"
    /\ pc' = [pc EXCEPT ![c] = "idle"]
    /\ req' = [req EXCEPT ![c] = NoRequest]
    /\ resp' = [resp EXCEPT ![c] = NoResponse]
    /\ UNCHANGED <<items, nextId, clock, text, verdict>>

Next ==
    \/ Receive(1, Requests)
    \/ Create(1)
    \/ GetByID(1)
    \/ Patch(1)
    \/ Delete(1)
    \/ ListRows(1)
    \/ ListCount(1)
    \/ Complete(1)

Spec == Init /\ [][Next]_vars

-----------------------------------------------------------------------------
(* Concurrent requests: every client has a request of its own in flight.   *)
(* Each handler's only access to the table is one SQL statement, which the *)
(* engine executes atomically, so a step is one handler's statement.       *)

ConcNameTexts == {<<" ", "a", " ">>, <<"b">>}

ConcCreateBodies ==
    [syntax : {"object"},
     name : {JStr(n) : n \in ConcNameTexts},
     description : {JAbsent},
     price : {JStr(<<" ", "1", " ">>)},
     stock : {JNum(0)}]

ConcPatchBodies ==
    [syntax : {"object"},
     name : {JStr(n) : n \in ConcNameTexts},
     description : {JAbsent},
     price : {JAbsent},
     stock : {JAbsent, JNum(1)}]

ConcRequests ==
    {Request("Create", 0, b, <<>>, <<>>, <<>>) : b \in ConcCreateBodies}
    \cup {Request("Patch", id, b, <<>>, <<>>, <<>>) :
            id \in 1..MaxCreates, b \in ConcPatchBodies}

NextConc ==
    \E c \in Clients :
        \/ Receive(c, ConcRequests)
        \/ Create(c)
        \/ Patch(c)
        \/ Complete(c)

SpecConc == Init /\ [][NextConc]_vars

-----------------------------------------------------------------------------
(* Concurrent updates of one stored item: every client sends one PATCH of  *)
(* the item, so the writes are bounded by the number of clients.           *)

\* the table after one item was created
Seeded ==
    DbInsert([items |-> {}, nextId |-> 0, clock |-> 0], [up |-> TRUE, fold |-> FALSE],
             <<"a">>, <<(<<"d">>)>>, <<"1">>, 0).st

\* payloads that set one field
UpdateBodies ==
    {[syntax |-> "object", name |-> JStr(<<" ", "b">>), description |-> JAbsent,
      price |-> JAbsent, stock |-> JAbsent],
     [syntax |-> "object", name |-> JAbsent, description |-> JStr(<<"e">>),
      price |-> JAbsent, stock |-> JAbsent],
     [syntax |-> "object", name |-> JAbsent, description |-> JAbsent,
      price |-> JStr(<<"2", ".", "5">>), stock |-> JAbsent],
     [syntax |-> "object", name |-> JAbsent, description |-> JAbsent,
      price |-> JAbsent, stock |-> JNum(1)]}

UpdateRequests ==
    {Request("Patch", id, b, <<>>, <<>>, <<>>) :
        id \in {r.id : r \in Seeded.items}, b \in UpdateBodies}

InitUpdates ==
    /\ items = Seeded.items
    /\ nextId = Seeded.nextId
    /\ clock = Seeded.clock
    /\ pc = [c \in Clients |-> "idle"]
    /\ req = [c \in Clients |-> NoRequest]
    /\ resp = [c \in Clients |-> NoResponse]
    /\ text = <<>>
    /\ verdict = "unchecked"

\* Handler.Patch of a client's one request
Update(c) ==
    /\ pc[c] = "pending" /\ req[c].op = "Patch"
    /\ \E env \in Envs : \E h \in {HandlerPatch(St, env, req[c].id, req[c].body)} : Written(c, h)

NextUpdates ==
    \E c \in Clients :
        \/ Receive(c, UpdateRequests)
        \/ Update(c)

SpecUpdates == InitUpdates /\ [][NextUpdates]_vars

-----------------------------------------------------------------------------
(* Service.Update called with any UpdateItemInput *)

\* every combination of the four pointers and the DescriptionPresent flag,
\* each given field holding a valid value
UpdateItemInputs ==
    [Name : {<<>>, <<(<<"b">>)>>}, Description : {<<>>, <<(<<"e">>)>>},
     Price : {<<>>, <<(<<"2">>)>>}, Stock : {<<>>, <<1>>},
     DescriptionPresent : BOOLEAN]

ServiceUpdateRequests ==
    {Request("Update", id, NoBody, <<>>, <<>>, <<>>) : id \in 1..MaxCreates}

\* a caller of the Service hands it an input
CallUpdate(c) ==
    /\ pc[c] = "pending" /\ req[c].op = "Update"
    /\ \E env \in Envs : \E itemInputUpdated \in UpdateItemInputs :
         \E r \in {ServiceUpdate(St, env, req[c].id, itemInputUpdated)} :
             Handled(c, [resp |-> Response(0, "", "", Called(r), itemInputUpdated),
                         st |-> r.st])

NextInputs ==
    \E c \in {1} :
        \/ Receive(c, ServiceUpdateRequests)
        \/ CallUpdate(c)
        \/ Complete(c)

SpecInputs == InitUpdates /\ [][NextInputs]_vars

-----------------------------------------------------------------------------
(* Listings while other requests create and delete items *)

RaceRequests ==
    {Request("List", 0, NoBody, p, l, <<>>) : p \in {<<>>, <<"2">>}, l \in {<<>>, <<"1">>}}
    \cup {Request("Delete", id, NoBody, <<>>, <<>>, <<>>) : id \in 1..MaxCreates}
    \cup {Request("Create", 0, b, <<>>, <<>>, <<>>) : b \in ConcCreateBodies}

NextRace ==
    \E c \in Clients :
        \/ Receive(c, RaceRequests)
        \/ ListRows(c)
        \/ ListCount(c)
        \/ Create(c)
        \/ Delete(c)
        \/ Complete(c)

SpecRace == InitUpdates /\ [][NextRace]_vars

-----------------------------------------------------------------------------
(* The router: RegisterRoutes under the router of main.go *)

\* the method and the path pattern a request for an operation arrives with
Method(op) ==
    CASE op = "Create" -> "POST"
      [] op = "List" -> "GET"
      [] op = "GetByID" -> "GET"
      [] op = "Patch" -> "PATCH"
      [] op = "Delete" -> "DELETE"

Pattern(op) == IF op \in {"Create", "List"} THEN "/items/" ELSE "/items/{id}"

RegisterRoutes ==
    {[method |-> "POST", pattern |-> "/items/", handler |-> "Create"],
     [method |-> "GET", pattern |-> "/items/", handler |-> "List"],
     [method |-> "GET", pattern |-> "/items/{id}", handler |-> "GetByID"],
     [method |-> "PATCH", pattern |-> "/items/{id}", handler |-> "Patch"]}

\* chi: the handler registered for the method and the pattern; a pattern
\* that is registered for other methods only goes to MethodNotAllowed
Router(method, pattern) ==
    IF \E r \in RegisterRoutes : r.method = method /\ r.pattern = pattern
    THEN (CHOOSE r \in RegisterRoutes : r.method = method /\ r.pattern = pattern).handler
    ELSE IF \E r \in RegisterRoutes : r.pattern = pattern THEN "MethodNotAllowed"
    ELSE "NotFound"

Routed(c, handler) ==
    pc[c] = "pending" /\ Router(Method(req[c].op), Pattern(req[c].op)) = handler

\* router.MethodNotAllowed of main.go
MethodNotAllowed(c) ==
    /\ Routed(c, "MethodNotAllowed")
    /\ resp' = [resp EXCEPT ![c] = Response(405, "method_not_allowed",
                                            "method not allowed", NotCalled, NoInput)]
    /\ pc' = [pc EXCEPT ![c] = "done"]
    /\ UNCHANGED <<items, nextId, clock, req, text, verdict>>

RoutePatchBodies ==
    {[syntax |-> "object", name |-> JAbsent, description |-> JAbsent,
      price |-> JAbsent, stock |-> JNum(1)]}

RouteRequests ==
    {Request("Create", 0, b, <<>>, <<>>, <<>>) : b \in ConcCreateBodies}
    \cup {Request("Patch", id, b, <<>>, <<>>, <<>>) : id \in PathIds, b \in RoutePatchBodies}
    \cup {Request("GetByID", id, NoBody, <<>>, <<>>, <<>>) : id \in PathIds}
    \cup {Request("Delete", id, NoBody, <<>>, <<>>, <<>>) : id \in PathIds}
    \cup {Request("List", 0, NoBody, p, <<>>, <<>>) : p \in PageParams}

\* http.ListenAndServe(address, router): every request goes through the
\* router; no route leads to Handler.Delete
NextRoutes ==
    \E c \in {1} :
        \/ Receive(c, RouteRequests)
        \/ Routed(c, "Create") /\ Create(c)
        \/ Routed(c, "List") /\ ListRows(c)
        \/ ListCount(c)
        \/ Routed(c, "GetByID") /\ GetByID(c)
        \/ Routed(c, "Patch") /\ Patch(c)
        \/ MethodNotAllowed(c)
        \/ Complete(c)

SpecRoutes == Init /\ [][NextRoutes]_vars

-----------------------------------------------------------------------------
(* Listings of a store that does not change *)

\* the name of the i-th row: "a", "Ab", "b", "ba", ...
ListName(i) ==
    IF i = 1 THEN <<"a">>
    ELSE IF i = 2 THEN <<"A", "b">>
    ELSE <<"b">> \o [j \in 1..(i - 3) |-> "a"]

\* the table after n creates
RECURSIVE ListStore(_)
ListStore(n) ==
    IF n = 0 THEN [items |-> {}, nextId |-> 0, clock |-> 0]
    ELSE DbInsert(ListStore(n - 1), [up |-> TRUE, fold |-> FALSE],
                  ListName(n), <<>>, <<"1">>, 0).st

ListQueryParams == {<<>>, <<" ", "A">>, <<"b">>, <<"_">>, <<"%">>}

ListRequests ==
    {Request("List", 0, NoBody, p, l, q) :
        p \in PageParams, l \in LimitParams, q \in ListQueryParams}

\* any of the created rows may have been deleted since
InitLists ==
    /\ items \in SUBSET ListStore(MaxCreates + 1).items
    /\ nextId = ListStore(MaxCreates + 1).nextId
    /\ clock = ListStore(MaxCreates + 1).clock
    /\ pc = [c \in Clients |-> "idle"]
    /\ req = [c \in Clients |-> NoRequest]
    /\ resp = [c \in Clients |-> NoResponse]
    /\ text = <<>>
    /\ verdict = "unchecked"

NextLists ==
    \E c \in {1} :
        \/ Receive(c, ListRequests)
        \/ ListRows(c)
        \/ ListCount(c)
        \/ Complete(c)

SpecLists == InitLists /\ [][NextLists]_vars

-----------------------------------------------------------------------------
(* isValidPrice on every text of at most MaxLen characters *)

PriceAlphabet == {"0", "1", ".", " ", "-", ",", "a"}

InitPrice ==
    /\ items = {}
    /\ nextId = 0
    /\ clock = 0
    /\ pc = [c \in Clients |-> "idle"]
    /\ req = [c \in Clients |-> NoRequest]
    /\ resp = [c \in Clients |-> NoResponse]
    /\ text \in TextsUpTo(PriceAlphabet, MaxLen)
    /\ verdict = "unchecked"

CheckPrice ==
    /\ verdict = "unchecked"
    /\ verdict' = IF isValidPrice(text) THEN "accepted" ELSE "rejected"
    /\ UNCHANGED <<items, nextId, clock, pc, req, resp, text>>

NextPrice == CheckPrice

SpecPrice == InitPrice /\ [][NextPrice]_vars

-----------------------------------------------------------------------------
(* Properties.  A request of client c is in flight while pc[c] = "pending"; *)
(* once pc[c] = "done", resp[c] holds the response together with what the   *)
(* Service was given (input), what it returned (err, item) and the          *)
(* Repository calls it made (calls, each with the error it returned).       *)

\* the handler of client c's request op takes its step
Handling(c, op) == pc[c] = "pending" /\ pc'[c] = "done" /\ req[c].op = op

\* client c's request op has been answered
Answered(c, op) == pc[c] = "done" /\ req[c].op = op

Stored(id) == \E r \in items : r.id = id

\* the connection to the storage failed under the last Repository call
StorageDown(r) == r.calls # <<>> /\ r.calls[Len(r.calls)].err = ConnFailed

\* the text without its leading and trailing whitespace
Unpadded(s) ==
    IF \A i \in 1..Len(s) : IsSpace(s[i]) THEN <<>>
    ELSE SubSeq(s, CHOOSE i \in 1..Len(s) :
                       ~IsSpace(s[i]) /\ \A j \in 1..(i - 1) : IsSpace(s[j]),
                   CHOOSE i \in 1..Len(s) :
                       ~IsSpace(s[i]) /\ \A j \in (i + 1)..Len(s) : IsSpace(s[j]))

\* one or more digits, optionally followed by a point and one or two digits
DecimalShape(t) ==
    \E k \in 1..Len(t) :
        /\ \A i \in 1..k : t[i] \in Digits
        /\ \/ k = Len(t)
           \/ /\ t[k + 1] = "."
              /\ Len(t) - (k + 1) \in {1, 2}
              /\ \A i \in (k + 2)..Len(t) : t[i] \in Digits

HasDigitOneToNine(t) ==
    \E i \in 1..Len(t) : t[i] \in {"1", "2", "3", "4", "5", "6", "7", "8", "9"}

\* what the price rule asks of a text
PriceTextValid(t) == DecimalShape(Unpadded(t)) /\ HasDigitOneToNine(Unpadded(t))

\* the payload holds the key description with the value null and nothing else
OnlyDescriptionNull(body) ==
    /\ body.syntax = "object" /\ body.description = JNull
    /\ body.name = JAbsent /\ body.price = JAbsent /\ body.stock = JAbsent

\* C1: for an existing item, a PATCH whose payload holds only the key
\* description with the value null succeeds (unless the storage is down):
\* the stored description becomes null and name, price and stock keep their
\* previous values.
C1_NullDescriptionPatchClears ==
    [][\A c \in Clients :
         (/\ Handling(c, "Patch")
          /\ OnlyDescriptionNull(req[c].body)
          /\ Stored(req[c].id)
          /\ ~StorageDown(resp'[c]))
         => /\ resp'[c].status = 200
            /\ \A r \in items :
                 r.id = req[c].id =>
                   \E n \in items' :
                     /\ n.id = r.id /\ n.description = <<>>
                     /\ n.name = r.name /\ n.price = r.price /\ n.stock = r.stock]_vars

\* an UpdateItemInput in which no field is present
NoFieldPresent(in) ==
    /\ in.Name = <<>> /\ in.Description = <<>> /\ in.Price = <<>> /\ in.Stock = <<>>
    /\ ~in.DescriptionPresent

\* C2: Service.Update called, for any id, with an UpdateItemInput in which
\* no field is present returns InvalidInput and makes no call to
\* Repository.Update.
C2_EmptyUpdateIsInvalidInput ==
    \A c \in Clients :
        (Answered(c, "Patch") /\ resp[c].called /\ NoFieldPresent(resp[c].input))
        => resp[c].err = ErrorInvalidInput /\ resp[c].calls = <<>>

\* an empty payload was sent for a stored item and answered InvalidInput
C2_Witness ==
    \E c \in Clients :
        /\ Answered(c, "Patch") /\ resp[c].called /\ NoFieldPresent(resp[c].input)
        /\ Stored(req[c].id)
        /\ resp[c].err = ErrorInvalidInput

\* a field of the update is present and invalid
InvalidUpdateField(in) ==
    \/ in.Name # <<>> /\ Unpadded(in.Name[1]) = <<>>
    \/ in.Price # <<>> /\ ~PriceTextValid(in.Price[1])
    \/ in.Stock # <<>> /\ in.Stock[1] < 0

\* what Service.Get reads of id in the store rows
Read(rows, id) ==
    {[item |-> g.item, err |-> g.err] :
        g \in {ServiceGet([items |-> rows, nextId |-> 0, clock |-> 0], env, id) :
                  env \in EnvsNoFold}}

\* C3: Service.Update whose payload holds a name empty after trimming, a
\* price that fails the price validation or a negative stock returns
\* InvalidInput without calling the repository, whatever else the payload
\* carries; the item read by Get is the same before and after the call.
C3_InvalidUpdateFieldIsRejected ==
    [][\A c \in Clients :
         (Handling(c, "Patch") /\ resp'[c].called /\ InvalidUpdateField(resp'[c].input))
         => /\ resp'[c].err = ErrorInvalidInput
            /\ resp'[c].calls = <<>>
            /\ items' = items
            /\ Read(items', req[c].id) = Read(items, req[c].id)]_vars

\* a stored item was sent a valid name together with the price 0
C3_Witness ==
    \E c \in Clients :
        /\ Answered(c, "Patch") /\ resp[c].called /\ Stored(req[c].id)
        /\ resp[c].input.Name = <<(<<"b">>)>>
        /\ resp[c].input.Price = <<(<<"0">>)>>
        /\ resp[c].err = ErrorInvalidInput

\* the input of a Create that the validation rules reject
InvalidCreate(in) ==
    \/ Unpadded(in.Name) = <<>>
    \/ Unpadded(in.Price) = <<>>
    \/ ~PriceTextValid(in.Price)
    \/ in.Stock < 0

\* C4: Service.Create returns InvalidInput and never calls Repository.Insert
\* when the name is empty after trimming, the price is empty or invalid
\* after trimming, or the stock is negative; for every other input it calls
\* Repository.Insert exactly once, with the trimmed name and trimmed price.
C4_CreateValidatesThenInsertsOnce ==
    \A c \in Clients :
        (Answered(c, "Create") /\ resp[c].called)
        => IF InvalidCreate(resp[c].input)
           THEN resp[c].err = ErrorInvalidInput /\ resp[c].calls = <<>>
           ELSE /\ Len(resp[c].calls) = 1
                /\ resp[c].calls[1].fn = "Insert"
                /\ resp[c].calls[1].args =
                     [Name |-> Unpadded(resp[c].input.Name),
                      Description |-> resp[c].input.Description,
                      Price |-> Unpadded(resp[c].input.Price),
                      Stock |-> resp[c].input.Stock]

\* a Create whose name and price carried whitespace reached Insert
C4_Witness ==
    \E c \in Clients :
        /\ Answered(c, "Create") /\ Len(resp[c].calls) = 1
        /\ resp[c].calls[1].args.Name # resp[c].input.Name
        /\ resp[c].calls[1].args.Price # resp[c].input.Price
        /\ resp[c].err = ""

FitsPriceColumn(t) == NumericFits(NumericCanon(Unpadded(t)))

\* C6: Service.Create with an otherwise valid input (one the rules accept
\* and the column types hold) whose trimmed name is the name of a stored
\* item returns DuplicateName, not InvalidInput and not an unclassified
\* error, unless the storage is down, and leaves the stored items unchanged.
C6_CreateDuplicateNameIsDuplicateName ==
    [][\A c \in Clients :
         (/\ Handling(c, "Create") /\ resp'[c].called
          /\ ~InvalidCreate(resp'[c].input)
          /\ FitsPriceColumn(resp'[c].input.Price)
          /\ \E r \in items : r.name = Unpadded(resp'[c].input.Name)
          /\ ~StorageDown(resp'[c]))
         => /\ resp'[c].err = ErrorDuplicateName
            /\ items' = items]_vars

\* a Create whose padded name trims to a stored name was answered
C6_Witness ==
    \E c \in Clients :
        /\ Answered(c, "Create") /\ resp[c].called
        /\ resp[c].input.Name # Unpadded(resp[c].input.Name)
        /\ \E r \in items : r.name = Unpadded(resp[c].input.Name)
        /\ resp[c].err = ErrorDuplicateName
        /\ resp[c].status = 409

\* no two stored items have the same name
UniqueNames ==
    \A r1 \in items : \A r2 \in items : r1.name = r2.name => r1.id = r2.id

\* the request of client c gives the name n to item target (0: a new item)
Names(c, n, target) ==
    \/ /\ req[c].op = "Create" /\ target = 0
       /\ JKind(req[c].body.name) = "s" /\ n = Unpadded(req[c].body.name[2])
    \/ /\ req[c].op = "Patch" /\ target = req[c].id /\ Stored(target)
       /\ JKind(req[c].body.name) = "s" /\ n = Unpadded(req[c].body.name[2])

\* a request that reaches the table with a name another item holds returns
\* DuplicateName and writes nothing
LosesTheName(c) ==
    \A r \in items :
        (/\ pc[c] = "pending" /\ pc'[c] = "done"
         /\ \E target \in 0..MaxCreates : target # r.id /\ Names(c, r.name, target)
         /\ resp'[c].calls # <<>>
         /\ ~StorageDown(resp'[c]))
        => resp'[c].err = ErrorDuplicateName /\ items' = items

\* C7: in every reachable state, under any interleaving of concurrent Create
\* and Update requests, no two stored items have the same name: of the
\* requests that would give one name to different items at most one
\* succeeds and each other one returns DuplicateName.
C7_NamesStayUniqueUnderConcurrency ==
    /\ []UniqueNames
    /\ [][\A c \in Clients : LosesTheName(c)]_vars

\* two clients asked for one name: one request got it and its item is
\* stored, the other was answered DuplicateName
C7_Witness ==
    \E c \in Clients : \E d \in Clients \ {c} :
        /\ pc[c] = "done" /\ pc[d] = "done"
        /\ resp[c].status \in {200, 201}
        /\ resp[c].item \in items
        /\ resp[d].err = ErrorDuplicateName /\ resp[d].status = 409
        /\ \E target \in 0..MaxCreates :
             target # resp[c].item.id /\ Names(d, resp[c].item.name, target)

\* C8: after any sequence of Create, Update and Delete calls made through
\* the Service, every stored item has a name that is non-empty and has no
\* leading or trailing whitespace, a price that matches the decimal pattern
\* with at least one nonzero digit, and stock >= 0.
C8_StoredItemsAreValid ==
    \A r \in items :
        /\ r.name # <<>> /\ Unpadded(r.name) = r.name
        /\ DecimalShape(r.price) /\ HasDigitOneToNine(r.price)
        /\ r.stock >= 0

\* an item that was created and later updated is stored
C8_Witness ==
    /\ \E r \in items : r.updated_at > r.created_at /\ r.stock > 0
    /\ \E c \in Clients : Answered(c, "Patch") /\ resp[c].status = 200

\* the Repository call that client c's request made, when it made one
RepositoryCall(r) == r.calls[1]

\* what the three Repository operations return for an id that matches no
\* stored item; noRows is what GetByID returns
MissingIdReturns(noRows) ==
    \A c \in Clients :
      (/\ pc[c] = "pending" /\ pc'[c] = "done"
       /\ req[c].op \in {"GetByID", "Patch", "Delete"}
       /\ resp'[c].calls # <<>>
       /\ ~Stored(req[c].id)
       /\ ~StorageDown(resp'[c])
       /\ (req[c].op = "Patch" =>
             \/ RepositoryCall(resp'[c]).args.in.Price = <<>>
             \/ FitsPriceColumn(RepositoryCall(resp'[c]).args.in.Price[1])))
      => /\ req[c].op = "GetByID" =>
              /\ RepositoryCall(resp'[c]).fn = "GetByID"
              /\ RepositoryCall(resp'[c]).err = noRows
              /\ resp'[c].err = ErrorNotFound
         /\ req[c].op = "Patch" =>
              /\ RepositoryCall(resp'[c]).fn = "Update"
              /\ RepositoryCall(resp'[c]).err = ErrorNotFound
         /\ req[c].op = "Delete" =>
              /\ RepositoryCall(resp'[c]).fn = "Delete"
              /\ RepositoryCall(resp'[c]).err = ErrorNotFound

StatusOf(err) ==
    IF err = ErrorInvalidInput THEN 400
    ELSE IF err = ErrorDuplicateName THEN 409
    ELSE IF err = ErrorNotFound THEN 404
    ELSE 500

\* C10: for each endpoint (Create, List, GetByID, Patch, Delete) and every
\* error the Service can return from its operation, the handler responds
\* 400 for InvalidInput, 409 for DuplicateName, 404 for NotFound and 500 for
\* any other error; no domain error an operation can produce falls into the
\* 500 branch of its handler.
C10_HandlersMapServiceErrors ==
    \A c \in Clients :
        (pc[c] = "done" /\ resp[c].called /\ resp[c].err # "")
        => /\ resp[c].status = StatusOf(resp[c].err)
           /\ resp[c].err \in DomainErrors => resp[c].status # 500

\* a Delete of an id that is not stored was answered 404
C10_Witness ==
    \E c \in Clients :
        /\ Answered(c, "Delete") /\ resp[c].called
        /\ resp[c].err = ErrorNotFound /\ resp[c].status = 404

\* an error that is none of the three domain kinds
Unclassified(err) == err # "" /\ err \notin DomainErrors

\* C11: for any two errors returned by the Service that are not
\* InvalidInput, DuplicateName or NotFound, the handler's response has the
\* same status, error code and error message (500, internal_error,
\* 'unexpected error'): the response does not depend on the content of the
\* unclassified error.
C11_UnclassifiedErrorsAnswerAlike ==
    \A c \in Clients :
        (pc[c] = "done" /\ resp[c].called /\ Unclassified(resp[c].err))
        => /\ resp[c].status = 500
           /\ resp[c].code = "internal_error"
           /\ resp[c].message = "unexpected error"
           /\ \A d \in Clients :
                (pc[d] = "done" /\ resp[d].called /\ Unclassified(resp[d].err))
                => /\ resp[d].status = resp[c].status
                   /\ resp[d].code = resp[c].code
                   /\ resp[d].message = resp[c].message

\* a Create failed in the storage with an error other than a lost connection
C11_Witness ==
    \E c \in Clients :
        /\ Answered(c, "Create") /\ resp[c].called
        /\ Unclassified(resp[c].err) /\ resp[c].err # ConnFailed
        /\ resp[c].status = 500

\* stored is the amount of the decimal text t as numeric(10,2) gives it back:
\* no superfluous leading zero and exactly two fraction digits
SameAmount(t, stored) ==
    /\ Len(stored) >= 4 /\ stored[Len(stored) - 2] = "."
    /\ stored[1] # "0" \/ stored[2] = "."
    /\ \E z \in 0..Len(t) :
         /\ \A i \in 1..z : t[i] = "0"
         /\ \E pad \in {<<>>, <<"0">>, <<".", "0", "0">>} :
              SubSeq(t, z + 1, Len(t)) \o pad = stored

\* the stored price text is the submitted text itself
SameText(t, stored) == stored = t

\* new is old after a successful Update with the input in at time now, the
\* stored price being related to the submitted one by Price
UpdatedAs(old, new, in, now, Price(_, _)) ==
    /\ new.id = old.id /\ new.created_at = old.created_at
    /\ new.updated_at = now /\ new.updated_at > old.updated_at
    /\ new.name = IF in.Name # <<>> THEN Unpadded(in.Name[1]) ELSE old.name
    /\ IF in.Price # <<>> THEN Price(Unpadded(in.Price[1]), new.price)
       ELSE new.price = old.price
    /\ new.stock = IF in.Stock # <<>> THEN in.Stock[1] ELSE old.stock
    /\ new.description = IF in.DescriptionPresent THEN in.Description
                         ELSE old.description

\* every successful Update step changes the item as UpdatedAs says, returns
\* the changed item and touches no other item
UpdateSetsPresentFields(Price(_, _)) ==
    \A c \in Clients :
        (Handling(c, "Patch") /\ resp'[c].called /\ resp'[c].err = "")
        => \E old \in items : \E new \in items' :
             /\ old.id = req[c].id
             /\ UpdatedAs(old, new, resp'[c].input, clock', Price)
             /\ resp'[c].item = new
             /\ items' \ {new} = items \ {old}

\* C12 as stated: a successful Update sets exactly the fields present in the
\* payload to the submitted values (name and price trimmed) and refreshes
\* updatedAt; the item's id, createdAt and every field absent from the
\* payload keep their previous values, and a payload without the
\* description key leaves description untouched.
C12_UpdateStoresSubmittedTexts == [][UpdateSetsPresentFields(SameText)]_vars

\* C12 as the code has it: the same, the price being set to the amount of
\* the submitted text as the column numeric(10,2) gives it back, with two
\* fraction digits (1.5 is stored and returned as 1.50).
C12_UpdateSetsExactlyThePresentFields == [][UpdateSetsPresentFields(SameAmount)]_vars

\* an Update of name and price succeeded on an item with a description, the
\* payload having no description key
C12_Witness ==
    \E c \in Clients :
        /\ Answered(c, "Patch") /\ resp[c].called /\ resp[c].err = ""
        /\ resp[c].input.Name # <<>> /\ resp[c].input.Name[1] # resp[c].item.name
        /\ resp[c].input.Price = <<(<<"1", ".", "5">>)>>
        /\ ~resp[c].input.DescriptionPresent
        /\ resp[c].item.description # <<>>
        /\ resp[c].item \in items

\* the fields an UpdateItemInput sets
FieldsOf(in) ==
    (IF in.Name # <<>> THEN {"name"} ELSE {})
    \cup (IF in.DescriptionPresent THEN {"description"} ELSE {})
    \cup (IF in.Price # <<>> THEN {"price"} ELSE {})
    \cup (IF in.Stock # <<>> THEN {"stock"} ELSE {})

\* the row holds every value the input submitted
Carries(row, in) ==
    /\ in.Name # <<>> => row.name = Unpadded(in.Name[1])
    /\ in.DescriptionPresent => row.description = in.Description
    /\ in.Price # <<>> => SameAmount(Unpadded(in.Price[1]), row.price)
    /\ in.Stock # <<>> => row.stock = in.Stock[1]

\* C13: when two Updates of the same id run concurrently, each setting a
\* different field, both succeed (the storage answering) and the final
\* stored item carries both new values: no interleaving makes one update
\* overwrite the other's field with a stale value.
C13_ConcurrentUpdatesOfDifferentFieldsBothLand ==
    \A c \in Clients : \A d \in Clients \ {c} :
        (/\ Answered(c, "Patch") /\ Answered(d, "Patch")
         /\ req[c].id = req[d].id
         /\ resp[c].called /\ resp[d].called
         /\ FieldsOf(resp[c].input) \cap FieldsOf(resp[d].input) = {}
         /\ ~StorageDown(resp[c]) /\ ~StorageDown(resp[d]))
        => /\ resp[c].status = 200 /\ resp[d].status = 200
           /\ \E r \in items :
                /\ r.id = req[c].id
                /\ Carries(r, resp[c].input) /\ Carries(r, resp[d].input)

\* one client set the name and the other the stock of the same item
C13_Witness ==
    \E c \in Clients : \E d \in Clients \ {c} :
        /\ Answered(c, "Patch") /\ Answered(d, "Patch")
        /\ req[c].id = req[d].id
        /\ resp[c].status = 200 /\ resp[d].status = 200
        /\ FieldsOf(resp[c].input) = {"name"} /\ FieldsOf(resp[d].input) = {"stock"}
        /\ \E r \in items : r.id = req[c].id /\ r.name = <<"b">> /\ r.stock = 1

\* C14: an Update that sets name to the name of a different stored item
\* returns DuplicateName (answered 409) and changes no field of any stored
\* item, even when the same payload also carries valid values for price,
\* stock or description.
C14_UpdateToHeldNameIsDuplicateName ==
    [][\A c \in Clients :
         (/\ Handling(c, "Patch") /\ resp'[c].called
          /\ Stored(req[c].id)
          /\ resp'[c].input.Name # <<>>
          /\ \E r \in items :
               r.id # req[c].id /\ r.name = Unpadded(resp'[c].input.Name[1])
          /\ ~InvalidUpdateField(resp'[c].input)
          /\ resp'[c].input.Price # <<>> => FitsPriceColumn(resp'[c].input.Price[1])
          /\ ~StorageDown(resp'[c]))
         => /\ resp'[c].err = ErrorDuplicateName
            /\ resp'[c].status = 409
            /\ items' = items]_vars

\* a payload with another item's name, a price, a stock and a description
\* was answered DuplicateName
C14_Witness ==
    \E c \in Clients :
        /\ Answered(c, "Patch") /\ resp[c].called /\ Stored(req[c].id)
        /\ resp[c].err = ErrorDuplicateName
        /\ FieldsOf(resp[c].input) = {"name", "description", "price", "stock"}
        /\ \E r \in items :
             r.id # req[c].id /\ r.name = Unpadded(resp[c].input.Name[1])

\* a successful Delete removes the row of its id and nothing else
DeleteRemoves(c) ==
    (Handling(c, "Delete") /\ resp'[c].called /\ resp'[c].err = "")
    => /\ Stored(req[c].id)
       /\ items' = {r \in items : r.id # req[c].id}

\* an id that was generated and is stored no more is never stored again
GoneStaysGone ==
    \A id \in 1..nextId : ~Stored(id) => \A r \in items' : r.id # id

\* the payload passes the validation of Service.Update and the column types
AcceptableUpdate(in) ==
    /\ in.Name # <<>> \/ in.Description # <<>> \/ in.Price # <<>> \/ in.Stock # <<>>
    /\ ~InvalidUpdateField(in)
    /\ in.Price # <<>> => FitsPriceColumn(in.Price[1])

\* Get, Update and Delete of an id that is not stored return NotFound and
\* change nothing
MissingIsNotFound(c) ==
    (/\ pc[c] = "pending" /\ pc'[c] = "done"
     /\ req[c].op \in {"GetByID", "Patch", "Delete"}
     /\ resp'[c].called
     /\ ~Stored(req[c].id)
     /\ req[c].op = "Patch" => AcceptableUpdate(resp'[c].input)
     /\ ~StorageDown(resp'[c]))
    => /\ resp'[c].err = ErrorNotFound
       /\ resp'[c].status = 404
       /\ items' = items

\* what List returns and Count counts is stored
ListedIsStored(c) ==
    (pc[c] \in {"pending", "counting"} /\ req[c].op = "List" /\ resp'[c].called)
    => /\ \A i \in 1..Len(resp'[c].items) : resp'[c].items[i] \in items
       /\ resp'[c].total <= Cardinality(items)

LowerCase(ch) == IF ch = "A" THEN "a" ELSE IF ch = "B" THEN "b" ELSE ch

\* q occurs in name as a substring, letter case aside
Contains(name, q) ==
    \E i \in 0..(Len(name) - Len(q)) :
        \A j \in 1..Len(q) : LowerCase(name[i + j]) = LowerCase(q[j])

\* the stored items whose name contains q (all items when q is empty)
Matching(q) == {r \in items : q = <<>> \/ Contains(r.name, q)}

\* the number of items of rows created after r
Rank(rows, r) == Cardinality({o \in rows : o.created_at > r.created_at})

\* out is rows, most recent first, without its first offset items and cut
\* to at most limit items
IsPageOf(out, rows, limit, offset) ==
    /\ \A i \in 1..Len(out) : out[i] \in rows /\ Rank(rows, out[i]) = offset + i - 1
    /\ \A r \in rows :
         (Rank(rows, r) >= offset /\ Rank(rows, r) < offset + limit)
         => \E i \in 1..Len(out) : out[i] = r

\* C16: Repository.List(query, limit, offset) returns exactly the stored
\* items whose name contains query as a case-insensitive substring (all
\* items when query is empty), ordered by creation time most recent first,
\* skipping the first offset of them and returning at most limit; when
\* nothing matches it returns an empty sequence and no error.
C16_ListReturnsTheMatchingPage ==
    \A c \in Clients :
        (/\ pc[c] \in {"counting", "done"} /\ req[c].op = "List"
         /\ resp[c].calls # <<>>
         /\ resp[c].calls[1].fn = "List"
         /\ resp[c].calls[1].err # ConnFailed)
        => /\ resp[c].calls[1].err = ""
           /\ pc[c] = "counting" =>
                IsPageOf(resp[c].items, Matching(resp[c].calls[1].args.query),
                         resp[c].calls[1].args.limit, resp[c].calls[1].args.offset)

StorageUp == [up |-> TRUE, fold |-> FALSE]

\* the queries List and Count are compared under
CountedQueries == {<<>>, <<"a">>, <<"A">>, <<"b">>, <<"_">>, <<"%">>, <<"a", "b">>, <<"b", "a">>}

\* the number of items Repository.List returns on the pages 0..last
RECURSIVE ListedOnPages(_, _, _)
ListedOnPages(nameQuery, limit, last) ==
    Len(RepositoryList(St, StorageUp, nameQuery, limit, last * limit).items)
    + (IF last = 0 THEN 0 ELSE ListedOnPages(nameQuery, limit, last - 1))

\* every page of List up to the first one that must be empty
ListedOverAllPages(nameQuery, limit) ==
    ListedOnPages(nameQuery, limit, Cardinality(items))

\* C17: in any store state and for any query, Repository.Count(query) equals
\* the number of items Repository.List(query, limit, offset) returns summed
\* over the pages offset 0, limit, 2*limit, ... of the unchanged store; the
\* total of an answered listing is that number.
C17_CountIsWhatListReturnsOverAllPages ==
    /\ \A q \in CountedQueries : \A limit \in 1..(MaxCreates + 1) :
         /\ RepositoryCount(St, StorageUp, q).err = ""
         /\ RepositoryCount(St, StorageUp, q).total = ListedOverAllPages(q, limit)
    /\ \A c \in Clients :
         (Answered(c, "List") /\ resp[c].status = 200)
         => resp[c].total = ListedOverAllPages(resp[c].query, resp[c].limit)

C17_Witness ==
    \E c \in Clients :
        /\ Answered(c, "List") /\ resp[c].status = 200
        /\ resp[c].query # <<>>
        /\ resp[c].total = 1 /\ Cardinality(items) = 2
        /\ Len(resp[c].calls) = 2 /\ resp[c].calls[2].fn = "Count"

\* Service.List was called for client c's request and has gone as far as
\* it goes before Repository.Count
ListCalled(c) ==
    pc[c] \in {"counting", "done"} /\ req[c].op = "List" /\ resp[c].called

C18_RefusedWitness ==
    \E c \in Clients :
        /\ Answered(c, "List") /\ resp[c].called
        /\ resp[c].page < 1
        /\ resp[c].err = ErrorInvalidInput /\ resp[c].calls = <<>>

\* the payload has name, price or stock present with the value null
NullInRequiredField(body) ==
    body.syntax = "object" /\ JNull \in {body.name, body.price, body.stock}

\* C19: a PATCH payload in which name, price or stock is present with the
\* value null is answered with status 400 by Handler.Patch and is never
\* passed to Service.Update, also when it carries other valid fields.
C19_NullInRequiredFieldIsRejected ==
    \A c \in Clients :
        (Answered(c, "Patch") /\ UuidParseOk(req[c].id)
         /\ NullInRequiredField(req[c].body))
        => resp[c].status = 400 /\ ~resp[c].called

\* a JSON object whose members have the types UpdateItemInput decodes
WellFormedPatch(body) ==
    /\ body.syntax = "object"
    /\ JKind(body.name) \in {"absent", "null", "s"}
    /\ JKind(body.description) \in {"absent", "null", "s"}
    /\ JKind(body.price) \in {"absent", "null", "s"}
    /\ JKind(body.stock) \in {"absent", "null", "n"}

\* C20: for every well-formed PATCH payload, the UpdateItemInput that
\* Handler.Patch passes to the Service has DescriptionPresent = true exactly
\* when the payload contains the key description, whatever its value: with
\* description null it is true and Description is nil, without the key it is
\* false; the Service hands both on to Repository.Update as they are.
C20_DescriptionPresentIsKeyPresence ==
    \A c \in Clients :
        (Answered(c, "Patch") /\ UuidParseOk(req[c].id)
         /\ WellFormedPatch(req[c].body))
        => /\ resp[c].called
           /\ resp[c].input.DescriptionPresent = (req[c].body.description # JAbsent)
           /\ req[c].body.description = JNull => resp[c].input.Description = <<>>
           /\ req[c].body.description = JAbsent => resp[c].input.Description = <<>>
           /\ \A i \in 1..Len(resp[c].calls) :
                resp[c].calls[i].fn = "Update"
                => /\ resp[c].calls[i].args.in.DescriptionPresent
                          = resp[c].input.DescriptionPresent
                   /\ resp[c].calls[i].args.in.Description
                          = resp[c].input.Description

C20_Witness ==
    \E c \in Clients :
        /\ Answered(c, "Patch") /\ resp[c].status = 200
        /\ req[c].body.description = JNull
        /\ resp[c].input.DescriptionPresent /\ resp[c].input.Description = <<>>
        /\ resp[c].item.description = <<>>

\* the text is a decimal integer of value at least 1
IntegerAtLeastOne(t) ==
    \E sign \in {<<>>, <<"+">>} : \E d \in 1..Len(t) :
        /\ Len(t) = Len(sign) + d
        /\ SubSeq(t, 1, Len(sign)) = sign
        /\ \A i \in (Len(sign) + 1)..Len(t) : t[i] \in Digits
        /\ \E i \in (Len(sign) + 1)..Len(t) : t[i] \in NonZeroDigits

\* the parameter is given and is no integer >= 1
BadPaginationParam(t) == Unpadded(t) # <<>> /\ ~IntegerAtLeastOne(Unpadded(t))

\* C21: Handler.List responds 400 with error code invalid_pagination and
\* does not call the Service whenever the page or the limit parameter is
\* present and is not an integer >= 1 (non-numeric, zero or negative).
C21_BadPaginationIsInvalidPagination ==
    \A c \in Clients :
        (/\ Answered(c, "List")
         /\ BadPaginationParam(req[c].page) \/ BadPaginationParam(req[c].limit))
        => /\ resp[c].status = 400
           /\ resp[c].code = "invalid_pagination"
           /\ ~resp[c].called

\* the number a text of digits writes
RECURSIVE NumberOf(_)
NumberOf(t) ==
    IF t = <<>> \/ t = <<"+">> THEN 0
    ELSE 10 * NumberOf(SubSeq(t, 1, Len(t) - 1))
         + (CHOOSE n \in 0..9 : DigitSeq[n + 1] = t[Len(t)])

\* C22: Handler.List calls the Service with page 1 when page is absent,
\* limit 20 when limit is absent and limit 100 when the given limit is above
\* 100; the pagination block of the response carries these effective page
\* and limit values and the total returned by the Service.
C22_ListDefaultsAndCapsPagination ==
    \A c \in Clients :
        (Answered(c, "List") /\ resp[c].status = 200)
        => /\ req[c].page = <<>> => resp[c].page = 1
           /\ req[c].limit = <<>> => resp[c].limit = 20
           /\ (IntegerAtLeastOne(req[c].limit) /\ NumberOf(req[c].limit) > 100)
                  => resp[c].limit = 100
           /\ (IntegerAtLeastOne(req[c].limit) /\ NumberOf(req[c].limit) <= 100)
                  => resp[c].limit = NumberOf(req[c].limit)
           /\ IntegerAtLeastOne(req[c].page) => resp[c].page = NumberOf(req[c].page)
           /\ resp[c].calls[1].args.limit = resp[c].limit
           /\ resp[c].calls[1].args.offset = (resp[c].page - 1) * resp[c].limit
           /\ resp[c].total = RepositoryCount(St, StorageUp, resp[c].query).total

C22_Witness ==
    \E c \in Clients :
        /\ Answered(c, "List") /\ resp[c].status = 200
        /\ req[c].page = <<>> /\ resp[c].page = 1
        /\ req[c].limit = <<"1", "0", "1">> /\ resp[c].limit = 100
        /\ resp[c].total = 2

\* a listing without parameters is answered with page 1 and limit 20
C22_DefaultsWitness ==
    \E c \in Clients :
        /\ Answered(c, "List") /\ resp[c].status = 200
        /\ req[c].page = <<>> /\ req[c].limit = <<>>
        /\ resp[c].page = 1 /\ resp[c].limit = 20 /\ resp[c].total = 1

\* the path ids that are UUIDs: the ones the table generates
IsUuid(id) == id >= 1

IdOperations == {"GetByID", "Patch", "Delete"}

\* C23: Handler.GetByID, Handler.Patch and Handler.Delete respond 400 with
\* error code invalid_id and do not call the Service whenever the id path
\* parameter is not a UUID; the Service, and the Repository behind it, are
\* only ever called with an id that parsed as a UUID.
C23_NonUuidIdIsInvalidId ==
    \A c \in Clients :
        (pc[c] = "done" /\ req[c].op \in IdOperations)
        => /\ ~IsUuid(req[c].id)
                => /\ resp[c].status = 400 /\ resp[c].code = "invalid_id"
                   /\ ~resp[c].called /\ resp[c].calls = <<>>
           /\ resp[c].called => IsUuid(req[c].id)
           /\ \A i \in 1..Len(resp[c].calls) :
                /\ resp[c].calls[i].args.id = req[c].id
                /\ IsUuid(resp[c].calls[i].args.id)

C23_Witness ==
    \E c \in Clients :
        /\ Answered(c, "GetByID") /\ ~IsUuid(req[c].id)
        /\ resp[c].status = 400 /\ resp[c].code = "invalid_id" /\ ~resp[c].called

C23_PatchWitness ==
    \E c \in Clients :
        /\ Answered(c, "Patch") /\ ~IsUuid(req[c].id)
        /\ req[c].body.syntax = "object"
        /\ resp[c].status = 400 /\ resp[c].code = "invalid_id" /\ ~resp[c].called

C23_DeleteWitness ==
    \E c \in Clients :
        /\ Answered(c, "Delete") /\ ~IsUuid(req[c].id)
        /\ resp[c].status = 400 /\ resp[c].code = "invalid_id" /\ ~resp[c].called

\* C24: RegisterRoutes routes all five item operations (POST /items,
\* GET /items, GET /items/{id}, PATCH /items/{id}, DELETE /items/{id}): no
\* request for one of them is answered method-not-allowed, and a
\* DELETE /items/{id} with a valid UUID reaches Handler.Delete, which calls
\* the Service and answers 204 on success.
C24_AllFiveOperationsAreRouted ==
    \A c \in Clients :
        pc[c] = "done"
        => /\ resp[c].status # 405
           /\ (req[c].op = "Delete" /\ IsUuid(req[c].id))
                => /\ resp[c].called
                   /\ resp[c].err = "" => resp[c].status = 204

ServiceOperations == {"Create", "List", "GetByID", "Patch", "Delete"}

\* the Service's call for client c's request has returned after it asked
\* the Repository, whose last answer was an error
RepositoryFailed(c) ==
    /\ pc[c] = "done" /\ req[c].op \in ServiceOperations
    /\ resp[c].calls # <<>>
    /\ resp[c].calls[Len(resp[c].calls)].err # ""

LastError(c) == resp[c].calls[Len(resp[c].calls)].err

\* C25: for each of Service.Create, List, Get, Update and Delete, an error
\* of the Repository that is none of the domain errors (and, for Get, not the
\* no-rows signal) is returned by the Service unchanged, with an empty
\* result; a domain error of the Repository is returned as that domain error.
C25_ServicePassesRepositoryErrorsOn ==
    \A c \in Clients :
        RepositoryFailed(c) =>
            IF req[c].op = "GetByID" /\ LastError(c) = ErrNoRows
            THEN resp[c].err = ErrorNotFound
            ELSE /\ resp[c].err = LastError(c)
                 /\ resp[c].item = NoItem
                 /\ resp[c].items = <<>> /\ resp[c].total = 0

C25_Witness ==
    \E c \in Clients :
        /\ RepositoryFailed(c) /\ req[c].op = "GetByID"
        /\ LastError(c) \notin DomainErrors \cup {ErrNoRows}
        /\ resp[c].err = LastError(c) /\ resp[c].item = NoItem

\* a domain error of the Repository comes back as it is
C25_DomainWitness ==
    \E c \in Clients :
        /\ RepositoryFailed(c) /\ req[c].op = "Patch"
        /\ LastError(c) = ErrorDuplicateName /\ resp[c].err = ErrorDuplicateName

\* item is what a Create of the input in made of it, the price text given
\* back being related to the submitted one by Price
CreatedAs(item, in, Price(_, _)) ==
    /\ item.name = Unpadded(in.Name)
    /\ Price(Unpadded(in.Price), item.price)
    /\ item.description = in.Description
    /\ item.stock = in.Stock

\* every successful Create step stores one new item under a generated id and
\* returns it, and every successful Get returns the stored item of its id
CreateThenGetReadBack(Price(_, _)) ==
    \A c \in Clients :
        /\ (Handling(c, "Create") /\ resp'[c].called /\ resp'[c].err = "")
             => /\ ~Stored(resp'[c].item.id) /\ resp'[c].item.id > nextId
                /\ items' = items \cup {resp'[c].item}
                /\ CreatedAs(resp'[c].item, resp'[c].input, Price)
                /\ \A g \in Read(items', resp'[c].item.id) :
                     g.err = "" => g.item = resp'[c].item
        /\ (Handling(c, "GetByID") /\ resp'[c].called /\ resp'[c].err = "")
             => resp'[c].item \in items /\ resp'[c].item.id = req[c].id

\* C26 as stated: the Item returned by a successful Create, and the Item a
\* following Get of its id returns, carry a generated id and the submitted
\* name and price text (both after trimming), description and stock
\* unchanged: the price text read back equals the price text written.
C26_CreateReadsBackSubmittedTexts == [][CreateThenGetReadBack(SameText)]_vars

\* C26 amended: the same, with the price read back being the amount of the
\* submitted text as numeric(10,2) renders it, with two fraction digits.
C26_CreateReadsBackTheAmount == [][CreateThenGetReadBack(SameAmount)]_vars

C26_Witness ==
    \E c \in Clients :
        /\ Answered(c, "Create") /\ resp[c].err = "" /\ resp[c].status = 201
        /\ resp[c].input.Price = <<" ", "1", " ">>
        /\ resp[c].item.price = <<"1", ".", "0", "0">>
        /\ resp[c].item.name = Unpadded(resp[c].input.Name)
        /\ resp[c].item \in items

\* a Get of a created item was answered with the item
C26_GetWitness ==
    \E c \in Clients :
        /\ Answered(c, "GetByID") /\ resp[c].status = 200
        /\ resp[c].item \in items /\ resp[c].item.price = <<"1", ".", "0", "0">>

\* the names of the Repository functions called so far, in order
CallNames(r) == [i \in 1..Len(r.calls) |-> r.calls[i].fn]

\* one step of client c's listing: Repository.List first, Repository.Count
\* after it and only when List succeeded, nothing after a failure
ListCallsInOrder(c) ==
    /\ (pc[c] = "pending" /\ req[c].op = "List" /\ pc'[c] # "pending"
        /\ resp'[c].called /\ resp'[c].calls # <<>>)
         => /\ CallNames(resp'[c]) = <<"List">>
            /\ pc'[c] = "counting" <=> resp'[c].calls[1].err = ""
            /\ pc'[c] = "done" <=> resp'[c].calls[1].err # ""
    /\ (pc[c] = "counting" /\ pc'[c] # "counting")
         => /\ pc'[c] = "done"
            /\ CallNames(resp'[c]) = <<"List", "Count">>
            /\ resp'[c].calls[1] = resp[c].calls[1]
    /\ (pc[c] = "done" /\ req[c].op = "List" /\ pc'[c] = "done")
         => resp'[c] = resp[c]
    /\ (req'[c].op = "List" /\ pc'[c] = "done" /\ resp'[c].calls # <<>>
        /\ resp'[c].calls[Len(resp'[c].calls)].err # "")
         => /\ resp'[c].err = resp'[c].calls[Len(resp'[c].calls)].err
            /\ resp'[c].items = <<>> /\ resp'[c].total = 0
            /\ resp'[c].status # 200

\* C27: Service.List calls Repository.List before Repository.Count and each
\* at most once per call; if Repository.List fails, Repository.Count is
\* never called; whenever either one fails the Service returns that error
\* with no items and total 0, without retrying.
C27_ListThenCountOnceNoRetry == [][\A c \in Clients : ListCallsInOrder(c)]_vars

\* Repository.List returned items and Repository.Count then failed
C27_Witness ==
    \E c \in Clients :
        /\ Answered(c, "List")
        /\ CallNames(resp[c]) = <<"List", "Count">>
        /\ resp[c].calls[2].err # ""
        /\ RepositoryList(St, StorageUp, resp[c].query, resp[c].limit,
                          resp[c].calls[1].args.offset).items # <<>>
        /\ resp[c].err = resp[c].calls[2].err /\ resp[c].items = <<>>

\* Repository.List failed and nothing was called after it
C27_ListFailedWitness ==
    \E c \in Clients :
        /\ Answered(c, "List") /\ CallNames(resp[c]) = <<"List">>
        /\ resp[c].calls[1].err # "" /\ resp[c].err = resp[c].calls[1].err

\* Repository.Update has something to set for the input
SetClauseNonEmpty(in) ==
    in.Name # <<>> \/ in.DescriptionPresent \/ in.Price # <<>> \/ in.Stock # <<>>

\* C28: for every UpdateItemInput (every combination of the four pointer
\* fields and the DescriptionPresent flag, the given values being valid),
\* Service.Update passes its presence check and calls Repository.Update
\* exactly when Repository.Update builds a non-empty set-clause; so
\* Repository.Update never returns InvalidInput for a payload the Service
\* accepted and the Service never rejects a payload the Repository would
\* execute.
C28_ServiceAndRepositoryAgreeOnPresence ==
    \A c \in Clients :
        (pc[c] = "done" /\ req[c].op = "Update")
        => /\ resp[c].calls # <<>> <=> SetClauseNonEmpty(resp[c].input)
           /\ resp[c].calls # <<>> => resp[c].calls[1].err # ErrorInvalidInput
           /\ resp[c].err = ErrorInvalidInput => ~SetClauseNonEmpty(resp[c].input)

\* C29: the total returned by a successful Service.List call that returned
\* items is at least offset plus the number of items returned by that same
\* call, also while other requests create or delete items between the
\* Service's two repository calls.
C29_TotalCoversTheReturnedPage ==
    \A c \in Clients :
        (Answered(c, "List") /\ resp[c].status = 200 /\ resp[c].items # <<>>)
        => resp[c].total >= resp[c].calls[1].args.offset + Len(resp[c].items)

\* the Service called for client c's request was given an input that passes
\* its validation, for an id that exists if it is an update
ValidatedRequest(c) ==
    \/ /\ Answered(c, "Create") /\ resp[c].called
       /\ ~InvalidCreate(resp[c].input)
    \/ /\ Answered(c, "Patch") /\ resp[c].called /\ Stored(req[c].id)
       /\ ~NoFieldPresent(resp[c].input) /\ ~InvalidUpdateField(resp[c].input)

\* C30: every Create or Update input that passes the Service's validation
\* also satisfies the constraints of the storage schema other than name
\* uniqueness: a validated request on an existing id, the storage answering,
\* never ends in an unclassified storage error and a 500 response (a
\* conflicting name ends in DuplicateName).
C30_ValidatedInputFitsTheSchema ==
    \A c \in Clients :
        (ValidatedRequest(c) /\ ~StorageDown(resp[c]))
        => ~Unclassified(resp[c].err) /\ resp[c].status # 500

====
